---- MODULE Spec2Model ----
(***************************************************************************)
(* Model of scripts/merge_openapi.py: the OpenAPI spec merger.             *)
(*                                                                         *)
(* A YAML value is a record [kind, s, l, m]:                               *)
(*   kind = "null"    None                                                 *)
(*   kind = "scalar"  a string/number/bool, s = its text as a sequence of  *)
(*                    pieces (<<>> is the empty string, <<"0">> the number *)
(*                    zero; environment values are split into characters)  *)
(*   kind = "list"    l = the sequence of element values                   *)
(*   kind = "map"     m = a function from keys (strings) to values         *)
(* kind = "absent" is not a YAML value: it marks a key that a mapping does *)
(* not have (what dict.get returns its default for).                       *)
(* Python dict equality ignores insertion order, so nested mappings carry  *)
(* none; the insertion order of the top-level keys of `out`, which         *)
(* yaml.safe_dump(sort_keys=False) writes, is kept in out_keys.            *)
(***************************************************************************)
EXTENDS Integers, Sequences, FiniteSets, TLC

VARIABLES
    argv,       \* sys.argv: <<program, output, input1, ...>>
    environ,    \* os.environ['MERGE_DEFAULT_SERVER']: [set, val]
    fs,         \* input files: name -> content, "unread" until first opened
    pc,         \* position of the process in main / merge_specs
    i,          \* index into inputs of the `for p in paths` loop
    ci,         \* index into CompKeys of the `for key in [...]` loop
    spec,       \* the document load_yaml returned for the current input
    out,        \* the accumulator of merge_specs (a "map" value)
    out_keys,   \* insertion order of the top-level keys of out
    seen_tags,  \* the set seen_tags
    outfile,    \* the output file: NotWritten or what safe_dump wrote
    stdout,     \* the lines printed
    exit_code   \* "running", "0", "1" or "exception" (uncaught, status 1)

vars == <<argv, environ, fs, pc, i, ci, spec, out, out_keys, seen_tags,
          outfile, stdout, exit_code>>

-----------------------------------------------------------------------------
(* Bounds of the model *)

MaxInputs == 2      \* at most this many input paths on the command line
MaxDepth == 2       \* nesting depth of the mappings in input documents
MaxTags == 2        \* at most this many tag entries per input document

-----------------------------------------------------------------------------
(* Values *)

NoMap == <<>>

Absent == [kind |-> "absent", s |-> <<>>, l |-> <<>>, m |-> NoMap]
Null == [kind |-> "null", s |-> <<>>, l |-> <<>>, m |-> NoMap]
Scalar(chars) == [kind |-> "scalar", s |-> chars, l |-> <<>>, m |-> NoMap]
List(elems) == [kind |-> "list", s |-> <<>>, l |-> elems, m |-> NoMap]
Map(f) == [kind |-> "map", s |-> <<>>, l |-> <<>>, m |-> f]
EmptyDict == Map(NoMap)

\* isinstance(v, dict)
IsDict(v) == v.kind = "map"

\* Python truthiness of a loaded value
Truthy(v) ==
    CASE v.kind = "null" -> FALSE
      [] v.kind = "absent" -> FALSE
      [] v.kind = "scalar" -> v.s # <<>> /\ v.s # <<"0">>
      [] v.kind = "list" -> v.l # <<>>
      [] v.kind = "map" -> DOMAIN v.m # {}

\* d.get(k, default) on a mapping d
Get(d, k, default) == IF k \in DOMAIN d.m THEN d.m[k] ELSE default

\* `v or {}`
OrEmpty(v) == IF Truthy(v) THEN v ELSE EmptyDict

\* d[k] = v on a mapping d
SetItem(d, k, v) ==
    Map([x \in DOMAIN d.m \cup {k} |-> IF x = k THEN v ELSE d.m[x]])

\* copy.deepcopy: values have no identity here, the copy is the value
DeepCopy(v) == v

-----------------------------------------------------------------------------
(* deep_merge_dict *)

DeepMergeOverwrite(dst, src) ==
    \* mutant: plain dict.update, nested mappings are replaced, not merged
    Map([k \in DOMAIN dst.m \cup DOMAIN OrEmpty(src).m |->
            IF k \in DOMAIN OrEmpty(src).m THEN OrEmpty(src).m[k] ELSE dst.m[k]])

DeepMergeFirstWins(dst, src) ==
    \* mutant: a key the destination already has is kept
    Map([k \in DOMAIN dst.m \cup DOMAIN OrEmpty(src).m |->
            IF k \in DOMAIN dst.m THEN dst.m[k] ELSE OrEmpty(src).m[k]])

RECURSIVE deep_merge_dict(_, _)
\* the value of dst after deep_merge_dict(dst, src); src iterable as a dict
deep_merge_dict(dst, src) ==
    LET items == OrEmpty(src).m
    IN  Map([k \in DOMAIN dst.m \cup DOMAIN items |->
            IF k \notin DOMAIN items THEN dst.m[k]
            ELSE IF k \in DOMAIN dst.m /\ IsDict(dst.m[k]) /\ IsDict(items[k])
                 THEN deep_merge_dict(dst.m[k], items[k])
                 ELSE DeepCopy(items[k])])

\* (src or {}).items() raises AttributeError unless src is falsy or a dict
CanIterItems(src) == ~Truthy(src) \/ IsDict(src)

-----------------------------------------------------------------------------
(* merge_specs *)

CompKeys == <<"schemas", "securitySchemes", "parameters", "responses">>

\* the characters str.strip() removes (those the inputs use)
Whitespace == {" ", "\t", "\n", "\r"}

RECURSIVE LStrip(_)
LStrip(chars) ==
    IF chars # <<>> /\ Head(chars) \in Whitespace THEN LStrip(Tail(chars))
    ELSE chars

RECURSIVE RStrip(_)
RStrip(chars) ==
    IF chars # <<>> /\ chars[Len(chars)] \in Whitespace
    THEN RStrip(SubSeq(chars, 1, Len(chars) - 1))
    ELSE chars

NoStrip(chars) ==
    \* mutant: the value is used as found
    chars

\* str.strip()
Strip(chars) == RStrip(LStrip(chars))

\* os.environ.get('MERGE_DEFAULT_SERVER', '')
EnvGet(env) == IF env.set THEN env.val ELSE <<>>

SeedKeys == <<"openapi", "info", "paths", "components", "tags">>

\* the literal `out = {...}`
SeedOut ==
    Map("openapi" :> Scalar(<<"3.0.3">>)
        @@ "info" :> Map("title" :> Scalar(<<"FocusNest - All Services">>)
                         @@ "version" :> Scalar(<<"1.0.0">>))
        @@ "paths" :> EmptyDict
        @@ "components" :> Map([k \in {CompKeys[n] : n \in 1..Len(CompKeys)} |-> EmptyDict])
        @@ "tags" :> List(<<>>))

ServersEntry(url) ==
    List(<<Map("url" :> Scalar(url) @@ "description" :> Scalar(<<"Default">>))>>)

WithServersAlways(doc, keys, default_server) ==
    \* mutant: the servers entry is added whatever the value
    [doc |-> SetItem(doc, "servers", ServersEntry(default_server)),
     keys |-> Append(keys, "servers")]

\* `if default_server: out['servers'] = [...]`; a new key goes last in a dict
WithServers(doc, keys, default_server) ==
    IF default_server # <<>>
    THEN [doc |-> SetItem(doc, "servers", ServersEntry(default_server)),
          keys |-> Append(keys, "servers")]
    ELSE [doc |-> doc, keys |-> keys]

\* d.setdefault(k, {}) : the mapping d afterwards
SetDefault(d, k) == IF k \in DOMAIN d.m THEN d ELSE SetItem(d, k, EmptyDict)

MergePathsReplace(acc, doc) ==
    \* mutant: the container is rebound to the input's, not merged into
    SetItem(acc, "paths", Get(doc, "paths", EmptyDict))

\* deep_merge_dict(out['paths'], spec.get('paths', {}))
MergePathsInto(acc, doc) ==
    SetItem(acc, "paths",
            deep_merge_dict(acc.m["paths"], Get(doc, "paths", EmptyDict)))

\* comps = spec.get('components', {}) or {}
Comps(doc) == OrEmpty(Get(doc, "components", EmptyDict))

\* deep_merge_dict(out['components'].setdefault(key, {}), comps.get(key, {}) or {})
MergeComponentInto(acc, doc, key) ==
    LET holder == SetDefault(acc.m["components"], key)
        sub == OrEmpty(Get(Comps(doc), key, EmptyDict))
    IN  SetItem(acc, "components",
                SetItem(holder, key, deep_merge_dict(holder.m[key], sub)))

\* the tag loop raises unless tags is a list of mappings with hashable names
TagOk(t) ==
    /\ IsDict(t)
    /\ LET name == Get(t, "name", Null)
       IN  Truthy(name) => name.kind = "scalar"

\* `spec.get('tags', []) or []`
TagsOf(doc) ==
    LET v == Get(doc, "tags", List(<<>>)) IN IF Truthy(v) THEN v ELSE List(<<>>)

TagsIterable(doc) ==
    /\ TagsOf(doc).kind = "list"
    /\ \A n \in 1..Len(TagsOf(doc).l) : TagOk(TagsOf(doc).l[n])

TagStepLastWins(st, t) ==
    \* mutant: a later entry with a seen name takes the place of the earlier one
    LET name == Get(t, "name", Null)
    IN  IF ~Truthy(name) THEN st
        ELSE IF name \notin st.seen
        THEN [tags |-> Append(st.tags, t), seen |-> st.seen \cup {name}]
        ELSE [tags |-> [n \in 1..Len(st.tags) |->
                          IF Get(st.tags[n], "name", Null) = name THEN t
                          ELSE st.tags[n]],
              seen |-> st.seen]

TagStepNoDedup(st, t) ==
    \* mutant: every named entry is appended
    LET name == Get(t, "name", Null)
    IN  IF Truthy(name)
        THEN [tags |-> Append(st.tags, t), seen |-> st.seen \cup {name}]
        ELSE st

\* one iteration of `for t in ...`: st = [tags, seen]
TagStep(st, t) ==
    LET name == Get(t, "name", Null)
    IN  IF Truthy(name) /\ name \notin st.seen
        THEN [tags |-> Append(st.tags, t), seen |-> st.seen \cup {name}]
        ELSE st

RECURSIVE TagLoop(_, _)
TagLoop(st, ts) ==
    IF ts = <<>> THEN st ELSE TagLoop(TagStep(st, Head(ts)), Tail(ts))

\* one pass of the body of `for p in paths` over a loaded document
MergeDoc(st, doc) ==
    LET p == MergePathsInto(st.out, doc)
        c1 == MergeComponentInto(p, doc, CompKeys[1])
        c2 == MergeComponentInto(c1, doc, CompKeys[2])
        c3 == MergeComponentInto(c2, doc, CompKeys[3])
        c4 == MergeComponentInto(c3, doc, CompKeys[4])
        tg == TagLoop([tags |-> c4.m["tags"].l, seen |-> st.seen], TagsOf(doc).l)
    IN  [out |-> SetItem(c4, "tags", List(tg.tags)), seen |-> tg.seen]

RECURSIVE MergeAll(_, _)
MergeAll(st, docs) ==
    IF docs = <<>> THEN st ELSE MergeAll(MergeDoc(st, Head(docs)), Tail(docs))

\* the document merge_specs returns for documents that all load and merge
MergeSpecsOf(docs, env) ==
    MergeAll([out |-> WithServers(SeedOut, SeedKeys, Strip(EnvGet(env))).doc,
              seen |-> {}], docs).out

-----------------------------------------------------------------------------
(* main *)

NotWritten == [written |-> FALSE, keys |-> <<>>, doc |-> Null]

\* what print() writes: the usage line, or `Wrote {output} from {n} inputs`
UsageMsg ==
    [text |-> "Usage: merge_openapi.py <output> <input1> [input2 ...]",
     output |-> "", n |-> 0]
WroteMsg(output, n) == [text |-> "Wrote", output |-> output, n |-> n]

Unread == [read |-> FALSE, ok |-> FALSE, doc |-> Null]
Unreadable == [read |-> TRUE, ok |-> FALSE, doc |-> Null]
Parsed(doc) == [read |-> TRUE, ok |-> TRUE, doc |-> doc]

TooFewArgsOffByOne(av) ==
    \* mutant: the program name is not counted
    Len(av) < 2

\* `if len(sys.argv) < 3`
TooFewArgs(av) == Len(av) < 3

\* output = sys.argv[1]; inputs = sys.argv[2:]
Output == argv[2]
Inputs == SubSeq(argv, 3, Len(argv))

AlphaKeys == <<"components", "info", "openapi", "paths", "servers", "tags">>

SafeDumpSorted(doc, keys) ==
    \* mutant: sort_keys left at its default, True
    [written |-> TRUE,
     keys |-> SelectSeq(AlphaKeys, LAMBDA k : k \in DOMAIN doc.m),
     doc |-> doc]

\* yaml.safe_dump(merged, f, sort_keys=False): keys in insertion order
SafeDump(doc, keys) == [written |-> TRUE, keys |-> keys, doc |-> doc]

RaiseSwallowed ==
    \* mutant: the failure is caught and the run goes on to write what it has
    /\ pc' = "dump"
    /\ exit_code' = exit_code

\* an exception nothing catches: the process ends with a traceback
Raise ==
    /\ pc' = "exited"
    /\ exit_code' = "exception"

Main ==
    /\ pc = "main"
    /\ IF TooFewArgs(argv)
       THEN /\ stdout' = Append(stdout, UsageMsg)
            /\ exit_code' = "1"
            /\ pc' = "exited"
       ELSE /\ pc' = "merge_specs"
            /\ UNCHANGED <<stdout, exit_code>>
    /\ UNCHANGED <<argv, environ, fs, i, ci, spec, out, out_keys, seen_tags, outfile>>

MergeSpecsEntry ==
    /\ pc = "merge_specs"
    /\ LET seeded == WithServers(SeedOut, SeedKeys, Strip(EnvGet(environ)))
       IN  /\ out' = seeded.doc
           /\ out_keys' = seeded.keys
    /\ seen_tags' = {}
    /\ i' = 1
    /\ pc' = "for_p"
    /\ UNCHANGED <<argv, environ, fs, ci, spec, outfile, stdout, exit_code>>

\* spec = load_yaml(p): the file's content is fixed by its first read
LoadYaml(Contents) ==
    /\ pc = "for_p"
    /\ i <= Len(Inputs)
    /\ \E c \in (IF fs[Inputs[i]].read THEN {fs[Inputs[i]]} ELSE Contents) :
         /\ fs' = [fs EXCEPT ![Inputs[i]] = c]
         /\ IF c.ok
            THEN /\ spec' = c.doc
                 /\ pc' = "paths"
                 /\ UNCHANGED exit_code
            ELSE /\ Raise
                 /\ UNCHANGED spec
    /\ UNCHANGED <<argv, environ, i, ci, out, out_keys, seen_tags, outfile, stdout>>

MergePaths ==
    /\ pc = "paths"
    /\ IF IsDict(spec) /\ CanIterItems(Get(spec, "paths", EmptyDict))
       THEN /\ out' = MergePathsInto(out, spec)
            /\ ci' = 1
            /\ pc' = "components"
            /\ UNCHANGED exit_code
       ELSE /\ Raise
            /\ UNCHANGED <<out, ci>>
    /\ UNCHANGED <<argv, environ, fs, i, spec, out_keys, seen_tags, outfile, stdout>>

MergeComponent ==
    /\ pc = "components"
    /\ IF IsDict(Comps(spec))
          /\ CanIterItems(Get(Comps(spec), CompKeys[ci], EmptyDict))
       THEN /\ out' = MergeComponentInto(out, spec, CompKeys[ci])
            /\ IF ci < Len(CompKeys)
               THEN ci' = ci + 1 /\ pc' = "components"
               ELSE ci' = ci /\ pc' = "tags"
            /\ UNCHANGED exit_code
       ELSE /\ Raise
            /\ UNCHANGED <<out, ci>>
    /\ UNCHANGED <<argv, environ, fs, i, spec, out_keys, seen_tags, outfile, stdout>>

MergeTags ==
    /\ pc = "tags"
    /\ IF TagsIterable(spec)
       THEN /\ LET st == TagLoop([tags |-> out.m["tags"].l, seen |-> seen_tags],
                                 TagsOf(spec).l)
               IN  /\ out' = SetItem(out, "tags", List(st.tags))
                   /\ seen_tags' = st.seen
            /\ i' = i + 1
            /\ pc' = "for_p"
            /\ UNCHANGED exit_code
       ELSE /\ Raise
            /\ UNCHANGED <<out, seen_tags, i>>
    /\ UNCHANGED <<argv, environ, fs, ci, spec, out_keys, outfile, stdout>>

\* `return out`
Return ==
    /\ pc = "for_p"
    /\ i > Len(Inputs)
    /\ pc' = "dump"
    /\ UNCHANGED <<argv, environ, fs, i, ci, spec, out, out_keys, seen_tags,
                   outfile, stdout, exit_code>>

WriteOutput ==
    /\ pc = "dump"
    /\ outfile' = SafeDump(out, out_keys)
    /\ pc' = "print"
    /\ UNCHANGED <<argv, environ, fs, i, ci, spec, out, out_keys, seen_tags,
                   stdout, exit_code>>

PrintWrote ==
    /\ pc = "print"
    /\ stdout' = Append(stdout, WroteMsg(Output, Len(Inputs)))
    /\ exit_code' = "0"
    /\ pc' = "exited"
    /\ UNCHANGED <<argv, environ, fs, i, ci, spec, out, out_keys, seen_tags, outfile>>

-----------------------------------------------------------------------------
(* The inputs: command lines, environments and file contents *)

FileNames == {"a.yaml", "b.yaml"}

ArgvSet ==
    {<<"merge_openapi.py">>, <<"merge_openapi.py", "out.yaml">>}
    \cup {<<"merge_openapi.py", "out.yaml">> \o ins :
            ins \in UNION {[1..n -> FileNames] : n \in 1..MaxInputs}}

EnvUnset == [set |-> FALSE, val |-> <<>>]
EnvSetTo(chars) == [set |-> TRUE, val |-> chars]
EnvAll ==
    {EnvUnset, EnvSetTo(<<>>), EnvSetTo(<<" ", "\t">>), EnvSetTo(<<"u">>),
     EnvSetTo(<<" ", "u", "\t">>)}

One == Scalar(<<"1">>)
Leaves == {One, List(<<One>>), List(<<Scalar(<<"2">>)>>)}

DictOf(xv, yv) ==
    Map((IF xv = Absent THEN NoMap ELSE "x" :> xv)
        @@ (IF yv = Absent THEN NoMap ELSE "y" :> yv))

\* mappings over the keys x and y nested at most d deep
RECURSIVE Dicts(_)
Dicts(d) ==
    IF d = 0 THEN {}
    ELSE {DictOf(xv, yv) : xv \in {Absent} \cup Leaves \cup Dicts(d - 1),
                           yv \in {Absent, One}}

\* documents that hold one nested mapping as paths and as each component
PathDocs ==
    {Parsed(Map("paths" :> d
                @@ "components" :> Map([k \in {CompKeys[n] : n \in 1..Len(CompKeys)} |-> d]))) :
        d \in Dicts(MaxDepth)}
    \cup {Unreadable}

Tag(name, description) == Map("name" :> name @@ "description" :> description)
TagA == Tag(Scalar(<<"a">>), Scalar(<<"first">>))
TagAX == Tag(Scalar(<<"a">>), Scalar(<<"X">>))
TagB == Tag(Scalar(<<"b">>), Scalar(<<"first">>))
TagEmpty == Tag(Scalar(<<>>), Scalar(<<"empty name">>))
\* `name: 0` (like `name: no`, `name: false`): a name that is there and falsy
TagZero == Tag(Scalar(<<"0">>), Scalar(<<"zero name">>))
TagNameless == Map("description" :> Scalar(<<"no name">>))
TagEntries == {TagA, TagAX, TagB, TagEmpty, TagZero}

\* tag lists of at most MaxTags different entries
TagLists ==
    {ts \in UNION {[1..n -> TagEntries] : n \in 0..MaxTags} :
        \A j, k \in 1..Len(ts) : j # k => ts[j] # ts[k]}

TagDocs == {Parsed(Map("tags" :> List(ts))) : ts \in TagLists} \cup {Unreadable}

ServersIn == List(<<Map("url" :> Scalar(<<"http://input">>))>>)

\* a document with the given top-level entries, Absent ones left out
Doc(paths, components, tags, servers) ==
    LET given == [paths |-> paths, components |-> components, tags |-> tags,
                  servers |-> servers]
    IN  Map([k \in {x \in DOMAIN given : given[x] # Absent} |-> given[k]])

\* whole documents, and the ways an input can fail
GoodDocs ==
    {EmptyDict,
     Doc(DictOf(DictOf(One, One), Absent),
         Map("schemas" :> DictOf(DictOf(One, Absent), Absent) @@ "responses" :> Null),
         List(<<TagA, TagB>>), ServersIn),
     Doc(DictOf(List(<<One>>), One),
         Map("schemas" :> DictOf(DictOf(Absent, One), Absent)
             @@ "parameters" :> DictOf(Absent, List(<<One>>))),
         List(<<TagAX, TagEmpty>>), ServersIn),
     Doc(Null, Null, List(<<TagNameless, TagB>>), ServersIn),
     Doc(Null, Null, Null, ServersIn),
     Doc(EmptyDict, Map("schemas" :> EmptyDict), List(<<>>), Absent),
     Doc(Scalar(<<"0">>), Scalar(<<>>), Scalar(<<"0">>), List(<<>>)),
     Doc(Map("servers" :> ServersIn @@ "paths" :> One),
         Map("servers" :> ServersIn @@ "schemas" :> Map("schemas" :> One)),
         Absent, Absent)}

BadDocs ==
    {Null,
     List(<<One>>),
     Doc(List(<<One>>), Absent, Absent, Absent),
     Doc(Absent, One, Absent, Absent),
     Doc(Absent, Map("schemas" :> List(<<One>>)), Absent, Absent),
     Doc(Absent, Absent, DictOf(One, Absent), Absent),
     Doc(Absent, Absent, List(<<TagA, One>>), Absent)}

Docs == {Parsed(d) : d \in GoodDocs \cup BadDocs} \cup {Unreadable}

-----------------------------------------------------------------------------
(* Specifications *)

InitWith(envs) ==
    /\ argv \in ArgvSet
    /\ environ \in envs
    /\ fs = [f \in FileNames |-> Unread]
    /\ pc = "main"
    /\ i = 0
    /\ ci = 0
    /\ spec = Null
    /\ out = Null
    /\ out_keys = <<>>
    /\ seen_tags = {}
    /\ outfile = NotWritten
    /\ stdout = <<>>
    /\ exit_code = "running"

Init == InitWith(EnvAll)
InitUnset == InitWith({EnvUnset})

Step ==
    \/ Main
    \/ MergeSpecsEntry
    \/ MergePaths
    \/ MergeComponent
    \/ MergeTags
    \/ Return
    \/ WriteOutput
    \/ PrintWrote

Next == Step \/ LoadYaml(Docs)
NextPaths == Step \/ LoadYaml(PathDocs)
NextTags == Step \/ LoadYaml(TagDocs)

\* any documents; documents with nested mappings; documents with tags
Spec == Init /\ [][Next]_vars
SpecPaths == InitUnset /\ [][NextPaths]_vars
SpecTags == InitUnset /\ [][NextTags]_vars

-----------------------------------------------------------------------------
(* Vocabulary of the properties *)

CompKeySet == {CompKeys[n] : n \in 1..Len(CompKeys)}
Containers == {"paths"} \cup CompKeySet

\* key paths into a container, as deep as the input mappings go
KeyPaths == UNION {[1..n -> {"x", "y"}] : n \in 1..MaxDepth}

\* the value a mapping holds at a key path, Absent when it defines none
RECURSIVE At(_, _)
At(v, path) ==
    IF path = <<>> THEN v
    ELSE IF IsDict(v) /\ Head(path) \in DOMAIN v.m
         THEN At(v.m[Head(path)], Tail(path))
         ELSE Absent

\* the container c of an input document / of the accumulator
InputContainer(doc, c) ==
    IF c = "paths" THEN OrEmpty(Get(doc, "paths", EmptyDict))
    ELSE OrEmpty(Get(Comps(doc), c, EmptyDict))
OutContainer(acc, c) ==
    IF c = "paths" THEN acc.m["paths"] ELSE acc.m["components"].m[c]

InputDoc(k) == fs[Inputs[k]].doc
Merging == pc \in {"for_p", "paths", "components", "tags", "dump"}
Returned == pc \in {"dump", "print"} \/ (pc = "exited" /\ exit_code = "0")

-----------------------------------------------------------------------------
(* C1 *)

\* C1: with two inputs A then B, at every key path of `paths` or of a
\* components sub-container where both define a value and the two are not both
\* mappings, the merged document holds B's value (so with B then A, A's):
\* the later value replaces the earlier one whole, whatever the two types.
LastListedWins ==
    (pc = "dump" /\ Len(Inputs) = 2) =>
        \A c \in Containers : \A p \in KeyPaths :
            LET a == At(InputContainer(InputDoc(1), c), p)
                b == At(InputContainer(InputDoc(2), c), p)
            IN  (a # Absent /\ b # Absent /\ ~(IsDict(a) /\ IsDict(b)))
                    => At(OutContainer(out, c), p) = b

\* two different lists met at a nested key path of a components
\* sub-container, and the merged document holds the second input's list
WitnessLastListedWins ==
    /\ pc = "dump"
    /\ Len(Inputs) = 2
    /\ \E c \in CompKeySet : \E p \in KeyPaths :
         LET a == At(InputContainer(InputDoc(1), c), p)
             b == At(InputContainer(InputDoc(2), c), p)
         IN  /\ Len(p) = 2
             /\ a.kind = "list" /\ b.kind = "list" /\ a # b
             /\ At(OutContainer(out, c), p) = b
    /\ InputDoc(1) # InputDoc(2)

-----------------------------------------------------------------------------
(* C2 *)

\* what deep_merge_dict(D, S) must leave in R: wherever D and S both hold a
\* mapping, R holds a mapping with the keys of both; a key of D that the merge
\* reaches (its parents are mappings in S too) and S lacks keeps its value
MergedRecursively(D, S, R) ==
    \A p \in {<<>>} \cup KeyPaths :
        /\ (IsDict(At(D, p)) /\ IsDict(At(S, p))
              /\ \A n \in 0..(Len(p) - 1) : IsDict(At(S, SubSeq(p, 1, n))))
             => /\ IsDict(At(R, p))
                /\ DOMAIN At(R, p).m = DOMAIN At(D, p).m \cup DOMAIN At(S, p).m
        /\ (p # <<>> /\ At(D, p) # Absent /\ At(S, p) = Absent
              /\ \A n \in 0..(Len(p) - 1) : IsDict(At(S, SubSeq(p, 1, n))))
             => At(R, p) = At(D, p)

\* C2: each deep merge of an input's `paths` into the accumulator's is
\* recursive: mappings on both sides are united key by key at every level,
\* and at every level the merge reaches, the keys only the accumulator has
\* keep exactly the values they had.
DeepMergeIsRecursive ==
    [][(pc = "paths" /\ pc' = "components")
         => MergedRecursively(out.m["paths"],
                              OrEmpty(Get(spec, "paths", EmptyDict)),
                              out'.m["paths"])]_vars

\* x held {x: ...} in the accumulator and {y: ...} in the second input, and
\* holds both keys after the merge
WitnessDeepMergeIsRecursive ==
    /\ pc = "components" /\ ci = 1 /\ i = 2
    /\ IsDict(At(InputDoc(1), <<"paths", "x">>))
    /\ IsDict(At(spec, <<"paths", "x">>))
    /\ DOMAIN At(InputDoc(1), <<"paths", "x">>).m = {"x"}
    /\ DOMAIN At(spec, <<"paths", "x">>).m = {"y"}
    /\ DOMAIN At(out, <<"paths", "x">>).m = {"x", "y"}
    /\ At(out, <<"paths", "x", "x">>) = At(InputDoc(1), <<"paths", "x", "x">>)

-----------------------------------------------------------------------------
(* C3 *)

NameOf(t) == Get(t, "name", Null)

\* every tag entry of the inputs, in argument order then document order
RECURSIVE TagsUpTo(_)
TagsUpTo(k) ==
    IF k = 0 THEN <<>> ELSE TagsUpTo(k - 1) \o TagsOf(InputDoc(k)).l

FirstIndex(all, name) ==
    CHOOSE j \in 1..Len(all) :
        NameOf(all[j]) = name /\ \A h \in 1..(j - 1) : NameOf(all[h]) # name

\* the output tags are the first occurrences of the given names, in order
FirstOccurrences(tags, all, names) ==
    /\ \A nm \in names :
         \E n \in 1..Len(tags) :
            /\ tags[n] = all[FirstIndex(all, nm)]
            /\ \A n2 \in 1..Len(tags) : NameOf(tags[n2]) = nm => n2 = n
    /\ \A n \in 1..Len(tags) : NameOf(tags[n]) \in names
    /\ \A n, n2 \in 1..Len(tags) :
         n < n2 => FirstIndex(all, NameOf(tags[n])) < FirstIndex(all, NameOf(tags[n2]))
    /\ \A n, n2 \in 1..Len(tags) : NameOf(tags[n]) = NameOf(tags[n2]) => n = n2

\* C3 as stated: one output entry for every name present in an input entry
TagDedupEveryPresentName ==
    pc = "dump" =>
        LET all == TagsUpTo(Len(Inputs))
        IN  FirstOccurrences(out.m["tags"].l, all,
                {NameOf(all[j]) : j \in {h \in 1..Len(all) : "name" \in DOMAIN all[h].m}})

\* C3 amended: the output tags hold exactly one entry for every non-empty
\* (truthy) tag name of the inputs, the whole entry of its first occurrence,
\* in order of first occurrence; later entries of a seen name and entries
\* whose name is missing or empty are dropped; no two entries share a name.
TagDedupFirstWins ==
    pc = "dump" =>
        LET all == TagsUpTo(Len(Inputs))
        IN  FirstOccurrences(out.m["tags"].l, all,
                {NameOf(all[j]) : j \in {h \in 1..Len(all) : Truthy(NameOf(all[h]))}})

\* the second input repeats the name of an entry of the first with another
\* description, and the first input's entry is the one kept
WitnessTagDedupFirstWins ==
    /\ pc = "dump"
    /\ Len(Inputs) = 2
    /\ \E j \in 1..Len(TagsOf(InputDoc(1)).l) : \E k \in 1..Len(TagsOf(InputDoc(2)).l) :
         LET t1 == TagsOf(InputDoc(1)).l[j]
             t2 == TagsOf(InputDoc(2)).l[k]
         IN  /\ Truthy(NameOf(t1)) /\ NameOf(t1) = NameOf(t2) /\ t1 # t2
             /\ \E n \in 1..Len(out.m["tags"].l) : out.m["tags"].l[n] = t1
             /\ \A n \in 1..Len(out.m["tags"].l) : out.m["tags"].l[n] # t2
    /\ Len(out.m["tags"].l) = 2

-----------------------------------------------------------------------------
(* C4, C5 *)

OnlyWhitespace(env) ==
    ~env.set \/ \A n \in 1..Len(env.val) : env.val[n] \in Whitespace

\* chars without its leading and trailing whitespace
IsTrimmedOf(url, chars) ==
    \E a, b \in 1..Len(chars) :
        /\ a <= b
        /\ chars[a] \notin Whitespace /\ chars[b] \notin Whitespace
        /\ \A n \in 1..Len(chars) : (n < a \/ n > b) => chars[n] \in Whitespace
        /\ url = SubSeq(chars, a, b)

SomeInputHasServers ==
    \E k \in 1..Len(Inputs) :
        /\ k < i
        /\ IsDict(InputDoc(k))
        /\ "servers" \in DOMAIN InputDoc(k).m

\* C4: with MERGE_DEFAULT_SERVER unset, empty or all whitespace, the
\* accumulator never has a `servers` key, from its seeding through every
\* step of the loop to the document returned and written, whatever the inputs.
ServersOmittedByDefault ==
    OnlyWhitespace(environ) =>
        /\ (Merging \/ Returned) => "servers" \notin DOMAIN out.m
        /\ \A n \in 1..Len(out_keys) : out_keys[n] # "servers"
        /\ outfile.written =>
             /\ "servers" \notin DOMAIN outfile.doc.m
             /\ \A n \in 1..Len(outfile.keys) : outfile.keys[n] # "servers"

WitnessServersOmittedByDefault ==
    /\ outfile.written
    /\ environ = EnvSetTo(<<" ", "\t">>)
    /\ SomeInputHasServers
    /\ "servers" \notin DOMAIN outfile.doc.m

\* C5: with MERGE_DEFAULT_SERVER set to a value that is not all whitespace,
\* `servers` is exactly [{url: <the trimmed value>, description: "Default"}]
\* from the seeding on, and no input adds to it, changes it or removes it.
ServersOverride ==
    (~OnlyWhitespace(environ) /\ (Merging \/ Returned)) =>
        /\ "servers" \in DOMAIN out.m
        /\ out.m["servers"].kind = "list"
        /\ Len(out.m["servers"].l) = 1
        /\ IsDict(out.m["servers"].l[1])
        /\ DOMAIN out.m["servers"].l[1].m = {"url", "description"}
        /\ out.m["servers"].l[1].m["description"] = Scalar(<<"Default">>)
        /\ out.m["servers"].l[1].m["url"].kind = "scalar"
        /\ IsTrimmedOf(out.m["servers"].l[1].m["url"].s, environ.val)
        /\ outfile.written => outfile.doc = out

WitnessServersOverride ==
    /\ outfile.written
    /\ environ = EnvSetTo(<<" ", "u", "\t">>)
    /\ SomeInputHasServers
    /\ outfile.doc.m["servers"] = ServersEntry(<<"u">>)

-----------------------------------------------------------------------------
(* C6 *)

\* the documents of the inputs, the one at position k left out
RECURSIVE DocsWithout(_, _)
DocsWithout(n, k) ==
    IF n = 0 THEN <<>>
    ELSE IF n = k THEN DocsWithout(n - 1, k)
    ELSE Append(DocsWithout(n - 1, k), InputDoc(n))

\* C6: when an input is listed a second time right after itself, the merged
\* document is the one the list without the repetition gives, in every part;
\* in particular merging [A, A] gives what merging [A] gives.
RepeatedInputIsIdempotent ==
    pc = "dump" =>
        \A k \in 2..Len(Inputs) :
            Inputs[k] = Inputs[k - 1]
                => out = MergeSpecsOf(DocsWithout(Len(Inputs), k), environ)

WitnessRepeatedInputIsIdempotent ==
    /\ pc = "dump"
    /\ Len(Inputs) = 2
    /\ Inputs[1] = Inputs[2]
    /\ DOMAIN out.m["paths"].m # {}
    /\ DOMAIN out.m["components"].m["schemas"].m # {}
    /\ Len(out.m["tags"].l) = 2
    /\ out = MergeSpecsOf(<<InputDoc(1)>>, environ)

-----------------------------------------------------------------------------
(* C7 *)

WroteLines == {n \in 1..Len(stdout) : stdout[n].text = "Wrote"}

\* C7: a run in which an input failed to load or to merge never writes the
\* output file and never prints the `Wrote` line; the file is written only
\* once every input has been loaded and merged.
FailFastNoPartialOutput ==
    /\ exit_code = "exception" => (~outfile.written /\ WroteLines = {})
    /\ outfile.written =>
         /\ i = Len(Inputs) + 1
         /\ \A k \in 1..Len(Inputs) : fs[Inputs[k]].read /\ fs[Inputs[k]].ok
         /\ exit_code # "exception"
    /\ WroteLines # {} => outfile.written

\* the second input could not be read after the first had been merged
WitnessFailFastNoPartialOutput ==
    /\ exit_code = "exception"
    /\ i = 2
    /\ fs[Inputs[1]].ok
    /\ DOMAIN out.m["paths"].m # {}
    /\ fs[Inputs[2]] = Unreadable
    /\ ~outfile.written

-----------------------------------------------------------------------------
(* C8 *)

\* the arguments after the program name
NumArgs == Len(argv) - 1

\* C8: with no argument or one, the program prints the usage line, exits
\* with status 1, reads no input and leaves the output file alone; with two
\* or more it never prints the usage line.
MinimumArguments ==
    /\ NumArgs <= 1 =>
         /\ pc \in {"main", "exited"}
         /\ pc = "exited" => (exit_code = "1" /\ stdout = <<UsageMsg>>)
         /\ outfile = NotWritten
         /\ \A f \in FileNames : ~fs[f].read
    /\ NumArgs >= 2 => \A n \in 1..Len(stdout) : stdout[n] # UsageMsg

WitnessMinimumArguments ==
    /\ NumArgs = 1
    /\ pc = "exited"
    /\ exit_code = "1"
    /\ stdout = <<UsageMsg>>
    /\ outfile = NotWritten

-----------------------------------------------------------------------------
(* C9 *)

ServersKeyIfSet == IF "servers" \in DOMAIN out.m THEN <<"servers">> ELSE <<>>

\* C9 as stated: the keys are written in insertion order, `servers` first
KeyOrderServersFirst ==
    outfile.written => outfile.keys = ServersKeyIfSet \o SeedKeys

\* C9 amended: the keys are written in insertion order, never sorted:
\* openapi, info, paths, components, tags, and `servers` LAST when the
\* MERGE_DEFAULT_SERVER override is set.
KeyOrderServersLast ==
    outfile.written =>
        /\ outfile.keys = SeedKeys \o ServersKeyIfSet
        /\ {outfile.keys[n] : n \in 1..Len(outfile.keys)} = DOMAIN outfile.doc.m

WitnessKeyOrderServersLast ==
    /\ outfile.written
    /\ ~OnlyWhitespace(environ)
    /\ Len(outfile.keys) = 6
    /\ outfile.keys[6] = "servers"
    /\ outfile.keys[1] = "openapi"

-----------------------------------------------------------------------------
(* C10 *)

\* C10: from the seeding of the accumulator through every merge step of
\* every input, it has the keys openapi, info, paths, components and tags
\* (and no other but servers), openapi and info as seeded, `paths` a mapping,
\* `components` a mapping of exactly the four sub-containers, each a mapping,
\* and `tags` a sequence.
AccumulatorShape ==
    Merging =>
        /\ IsDict(out)
        /\ DOMAIN out.m \in {DOMAIN SeedOut.m, DOMAIN SeedOut.m \cup {"servers"}}
        /\ out.m["openapi"] = SeedOut.m["openapi"]
        /\ out.m["info"] = SeedOut.m["info"]
        /\ IsDict(out.m["paths"])
        /\ IsDict(out.m["components"])
        /\ DOMAIN out.m["components"].m = CompKeySet
        /\ \A k \in CompKeySet : IsDict(out.m["components"].m[k])
        /\ out.m["tags"].kind = "list"

\* an input whose containers hold keys named like the top-level ones, and
\* one whose containers are null, have been merged
WitnessAccumulatorShape ==
    /\ pc = "for_p"
    /\ i = 3
    /\ At(InputDoc(1), <<"paths", "paths">>) # Absent
    /\ At(InputDoc(1), <<"components", "servers">>) # Absent
    /\ At(InputDoc(2), <<"paths">>) = Null
    /\ "paths" \in DOMAIN out.m["paths"].m
    /\ AccumulatorShape

====
